---- MODULE Spec2Model ----
(***************************************************************************)
(* Data pipeline: the text and date normalizer (cleaner.py) and the        *)
(* validation rule engine with its aggregator, reporter and filter         *)
(* (validator.py).                                                         *)
(*                                                                         *)
(* A string is a sequence of characters; a character is a one-character    *)
(* TLA+ string, or a name ("NBSP", "SOH", ...) for a character that has no *)
(* printable form.  The library functions the pipeline calls are modelled  *)
(* as CPython 3.11 computes them (html.unescape, re.sub, str.strip,        *)
(* datetime.fromisoformat, datetime.strptime, str, repr).                  *)
(*                                                                         *)
(* Each function of the pipeline has its own specification:                *)
(*   SpecText     clean_text, applied to a text and again to its result    *)
(*   SpecDate     parse_date_to_iso                                        *)
(*   SpecArticle  clean_article                                            *)
(*   SpecClean    clean, the loop over the articles of a batch             *)
(*   SpecRecord   validate_record                                          *)
(*   SpecMain     validator.main: validate, write_report, save_valid_only  *)
(*   SpecSave     save_valid_only called on a batch                        *)
(***************************************************************************)
EXTENDS Integers, Sequences, FiniteSets

VARIABLES
    value, once, twice, tpc,           \* clean_text: argument, first and second result
    date_value, date_iso, dpc,         \* parse_date_to_iso: argument and result
    article, cleaned_article, apc,     \* clean_article: argument and result
    data, cleaned_articles, ci, cleaned, cpc,   \* clean: argument, loop state, result
    record, verdict, rpc,              \* validate_record: argument and result
    base, batch, vi, tally, result, report, saved, vpc
                                       \* validator.main: the batch as collected
                                       \* (base) and as handed over (batch), the
                                       \* loop state of validate, its result, the
                                       \* report and the filtered batch

textVars == <<value, once, twice, tpc>>
dateVars == <<date_value, date_iso, dpc>>
articleVars == <<article, cleaned_article, apc>>
cleanVars == <<data, cleaned_articles, ci, cleaned, cpc>>
recordVars == <<record, verdict, rpc>>
mainVars == <<base, batch, vi, tally, result, report, saved, vpc>>
vars == <<textVars, dateVars, articleVars, cleanVars, recordVars, mainVars>>

(***************************************************************************)
(* Bounds of the model.                                                    *)
(***************************************************************************)
MaxChunks == 4          \* pieces a text is concatenated from
MaxSuffix == 6          \* characters that follow a date text
MaxFieldChunks == 3     \* pieces the text in the fields of an article has
MaxArticles == 3        \* articles of a batch
MaxPad == 2             \* blanks before and after the text of a field

(***************************************************************************)
(* Characters.                                                             *)
(***************************************************************************)
\* The printable ASCII characters, code points 32..126, in order (GRAVE names
\* the grave accent, code point 96).
Printable ==
    << " ", "!", "\"", "#", "$", "%", "&", "'", "(", ")", "*", "+", ",", "-",
       ".", "/", "0", "1", "2", "3", "4", "5", "6", "7", "8", "9", ":", ";",
       "<", "=", ">", "?", "@", "A", "B", "C", "D", "E", "F", "G", "H", "I",
       "J", "K", "L", "M", "N", "O", "P", "Q", "R", "S", "T", "U", "V", "W",
       "X", "Y", "Z", "[", "\\", "]", "^", "_", "GRAVE", "a", "b", "c", "d", "e",
       "f", "g", "h", "i", "j", "k", "l", "m", "n", "o", "p", "q", "r", "s",
       "t", "u", "v", "w", "x", "y", "z", "{", "|", "}", "~" >>

\* The characters of the model.
Chars ==
    {Printable[i] : i \in 1..Len(Printable)}
        \cup {"SOH", "TAB", "LF", "FF", "CR", "US", "DEL", "NBSP", "ZWSP", "ZWNJ", "ZWJ", "BOM"}

\* The code point of each character.
CodePoint ==
    [c \in Chars |->
        CASE c = "SOH"  -> 1
          [] c = "TAB"  -> 9
          [] c = "LF"   -> 10
          [] c = "FF"   -> 12
          [] c = "CR"   -> 13
          [] c = "US"   -> 31
          [] c = "DEL"  -> 127
          [] c = "NBSP" -> 160
          [] c = "ZWSP" -> 8203
          [] c = "ZWNJ" -> 8204
          [] c = "ZWJ"  -> 8205
          [] c = "BOM"  -> 65279
          [] OTHER      -> 31 + (CHOOSE i \in 1..Len(Printable) : Printable[i] = c)]

\* ord(c)
Ord(c) == CodePoint[c]

\* INVISIBLE_TO_SPACE
INVISIBLE_TO_SPACE == {"NBSP", "ZWSP", "ZWNJ", "ZWJ", "BOM"}

\* The characters the regular expression class \s and str.strip() treat as
\* whitespace, among the characters of the model.
IsSpace(c) == c \in {" ", "TAB", "LF", "FF", "CR", "US", "NBSP"}

\* The concatenation of a sequence of strings.
RECURSIVE Flatten(_)
Flatten(ss) == IF ss = <<>> THEN <<>> ELSE Head(ss) \o Flatten(Tail(ss))

(***************************************************************************)
(* JSON values: [t |-> tag, v |-> payload].  The payload of a string is    *)
(* its characters, of an int its decimal digits, of a bool its truth       *)
(* value (in a one-element tuple), of a list its items (JSON values), of a *)
(* dict its fields.  A key a dict does not have holds JAbsent.             *)
(***************************************************************************)
JStr(s) == [t |-> "str", v |-> s]
JNull == [t |-> "null", v |-> <<>>]
JAbsent == [t |-> "absent", v |-> <<>>]
JInt(digits) == [t |-> "int", v |-> digits]
JList(items) == [t |-> "list", v |-> items]
JDict(fields) == [t |-> "dict", v |-> fields]
JBool(b) == [t |-> "bool", v |-> <<b>>]

\* d.get(key): None for a key the dict does not have.
Get(d, key) == IF d.v[key].t = "absent" THEN JNull ELSE d.v[key]

\* d.get(key, default)
GetOr(d, key, default) == IF d.v[key].t = "absent" THEN default ELSE d.v[key]

\* "%02x" and "%04x"
HexDigit(d) == <<"0", "1", "2", "3", "4", "5", "6", "7", "8", "9",
                 "a", "b", "c", "d", "e", "f">>[d + 1]
Hex2(n) == <<HexDigit((n \div 16) % 16), HexDigit(n % 16)>>
Hex4(n) == Hex2(n \div 256) \o Hex2(n % 256)

\* One character of a string as repr() writes it between the quotes q.
\* (The characters above DEL that the model has are all non-printable.)
ReprChar(c, q) ==
    CASE c = "\\"  -> <<"\\", "\\">>
      [] c = q     -> <<"\\", q>>
      [] c = "TAB" -> <<"\\", "t">>
      [] c = "LF"  -> <<"\\", "n">>
      [] c = "CR"  -> <<"\\", "r">>
      [] c \notin {"\\", q, "TAB", "LF", "CR"} /\ (Ord(c) < 32 \/ Ord(c) = 127) ->
            <<"\\", "x">> \o Hex2(Ord(c))
      [] Ord(c) > 127 /\ Ord(c) < 256 -> <<"\\", "x">> \o Hex2(Ord(c))
      [] Ord(c) >= 256 -> <<"\\", "u">> \o Hex4(Ord(c))
      [] OTHER -> <<c>>

\* repr(s) of a string: double quotes if s has a ' and no ", else single.
Repr(s) ==
    LET has(c) == \E i \in 1..Len(s) : s[i] = c
        q == IF has("'") /\ ~has("\"") THEN "\"" ELSE "'"
    IN  <<q>> \o Flatten([i \in 1..Len(s) |-> ReprChar(s[i], q)]) \o <<q>>

\* ", ".join(repr(x) for x in items)
RECURSIVE JoinRepr(_)
JoinRepr(items) ==
    IF items = <<>> THEN <<>>
    ELSE IF Len(items) = 1 THEN Repr(items[1].v)
    ELSE Repr(items[1].v) \o <<",", " ">> \o JoinRepr(Tail(items))

\* str(value) of a string, an int, a bool, a list of strings or None.
PyStr(val) ==
    CASE val.t = "str"  -> val.v
      [] val.t = "int"  -> [i \in 1..Len(val.v) |-> Printable[val.v[i] + 17]]
      [] val.t = "bool" -> IF val.v[1] THEN <<"T", "r", "u", "e">>
                           ELSE <<"F", "a", "l", "s", "e">>
      [] val.t = "list" -> <<"[">> \o JoinRepr(val.v) \o <<"]">>
      [] OTHER          -> <<"N", "o", "n", "e">>

(***************************************************************************)
(* cleaner.py: clean_text                                                  *)
(***************************************************************************)
\* for char in INVISIBLE_TO_SPACE: s = s.replace(char, " ")
ReplaceInvisible(s) ==
    [i \in 1..Len(s) |-> IF s[i] \in INVISIBLE_TO_SPACE THEN " " ELSE s[i]]

\* The named character references html.unescape knows, among the names the
\* characters of the model can spell (with and without the final ';').
Html5Names ==
    { <<"a", "m", "p", ";">>, <<"a", "m", "p">>,
      <<"l", "t", ";">>, <<"l", "t">>,
      <<"g", "t", ";">>, <<"g", "t">>,
      <<"n", "b", "s", "p", ";">>, <<"n", "b", "s", "p">>,
      <<"z", "w", "j", ";">> }

Html5(name) ==
    CASE name[1] = "a" -> <<"&">>
      [] name[1] = "l" -> <<"<">>
      [] name[1] = "g" -> <<">">>
      [] name[1] = "n" -> <<"NBSP">>
      [] name[1] = "z" -> <<"ZWJ">>

\* A character of the class [^\t\n\f <&#;] that a reference name is made of.
IsNameChar(c) == c \notin {"TAB", "LF", "FF", " ", "<", "&", "#", ";"}

\* The number of leading name characters of s, 32 at most.
RECURSIVE NameLen(_)
NameLen(s) ==
    IF s = <<>> \/ ~IsNameChar(Head(s)) THEN 0
    ELSE LET n == 1 + NameLen(Tail(s)) IN IF n > 32 THEN 32 ELSE n

\* html._replace_charref for a named reference (the text after '&'): the
\* name itself, else its longest prefix of two or more characters that is a
\* known name, else the text unchanged.
ReplaceCharref(ref) ==
    IF ref \in Html5Names THEN Html5(ref)
    ELSE LET known == {x \in 2..(Len(ref) - 1) : SubSeq(ref, 1, x) \in Html5Names}
         IN IF known = {} THEN <<"&">> \o ref
            ELSE LET x == CHOOSE y \in known : \A z \in known : z <= y
                 IN Html5(SubSeq(ref, 1, x)) \o SubSeq(ref, x + 1, Len(ref))

\* html.unescape(s): every match of &name;? is replaced, left to right; the
\* replacement text is not scanned again.
RECURSIVE unescape(_)
unescape(s) ==
    IF s = <<>> THEN <<>>
    ELSE IF Head(s) # "&" THEN <<Head(s)>> \o unescape(Tail(s))
    ELSE LET rest == Tail(s)
             n == NameLen(rest)
         IN IF n = 0 THEN <<"&">> \o unescape(rest)
            ELSE LET semi == n < Len(rest) /\ rest[n + 1] = ";"
                     m == IF semi THEN n + 1 ELSE n
                 IN ReplaceCharref(SubSeq(rest, 1, m))
                        \o unescape(SubSeq(rest, m + 1, Len(rest)))

\* re.sub(r"<[^>]+>", "", s)
RECURSIVE StripTags(_)
StripTags(s) ==
    IF s = <<>> THEN <<>>
    ELSE IF /\ Head(s) = "<"
            /\ Len(s) >= 3
            /\ s[2] # ">"
            /\ \E j \in 3..Len(s) : s[j] = ">"
         THEN LET j == CHOOSE k \in 3..Len(s) :
                           s[k] = ">" /\ \A l \in 3..(k - 1) : s[l] # ">"
              IN StripTags(SubSeq(s, j + 1, Len(s)))
         ELSE <<Head(s)>> \o StripTags(Tail(s))

RECURSIVE DropSpace(_)
DropSpace(s) ==
    IF s # <<>> /\ IsSpace(Head(s)) THEN DropSpace(Tail(s)) ELSE s

\* re.sub(r"\s+", " ", s)
RECURSIVE CollapseSpace(_)
CollapseSpace(s) ==
    IF s = <<>> THEN <<>>
    ELSE IF IsSpace(Head(s)) THEN <<" ">> \o CollapseSpace(DropSpace(Tail(s)))
         ELSE <<Head(s)>> \o CollapseSpace(Tail(s))

RECURSIVE DropSpaceRight(_)
DropSpaceRight(s) ==
    IF s # <<>> /\ IsSpace(s[Len(s)]) THEN DropSpaceRight(SubSeq(s, 1, Len(s) - 1))
    ELSE s

\* str.strip()
Strip(s) == DropSpaceRight(DropSpace(s))

\* "".join(c for c in s if ord(c) >= 32 or c in "\t\n\r")
KeepsControl(c) == Ord(c) >= 32 \/ c \in {"TAB", "LF", "CR"}
RemoveControl(s) == SelectSeq(s, KeepsControl)

\* "".join(c for c in s if ord(c) != 127)
NotDel(c) == Ord(c) # 127
RemoveDel(s) == SelectSeq(s, NotDel)

\* clean_text(value) for a string value.
CleanString(s) ==
    RemoveDel(RemoveControl(Strip(CollapseSpace(StripTags(unescape(ReplaceInvisible(s)))))))

\* clean_text(value): "" unless value is a string.
clean_text(val) == IF val.t # "str" THEN <<>> ELSE CleanString(val.v)

(***************************************************************************)
(* cleaner.py: parse_date_to_iso                                           *)
(***************************************************************************)
\* s[a:b], Python's slice: 0-based, b exclusive, clipped to the string.
Slice(s, a, b) == SubSeq(s, a + 1, IF b < Len(s) THEN b ELSE Len(s))

IsDigit(c) == c \in {"0", "1", "2", "3", "4", "5", "6", "7", "8", "9"}
DigitVal(c) == Ord(c) - Ord("0")
DigitChar(d) == Printable[d + Ord("0") - 31]
AllDigits(s) == s # <<>> /\ \A i \in 1..Len(s) : IsDigit(s[i])

RECURSIVE ToInt(_)
ToInt(s) ==
    IF s = <<>> THEN 0
    ELSE 10 * ToInt(SubSeq(s, 1, Len(s) - 1)) + DigitVal(s[Len(s)])

\* "%02d" and "%04d"
Pad2(n) == <<DigitChar((n \div 10) % 10), DigitChar(n % 10)>>
Pad4(n) == Pad2(n \div 100) \o Pad2(n % 100)

\* str.lower() of each character
LowerCase ==
    [c \in Chars |-> IF Ord(c) >= Ord("A") /\ Ord(c) <= Ord("Z")
                     THEN Printable[Ord(c) + 32 - 31] ELSE c]
Lower(c) == LowerCase[c]
LowerStr(s) == [i \in 1..Len(s) |-> Lower(s[i])]

\* Month names of the C locale, lower case, by month number.
MonthAbbr ==
    << <<"j", "a", "n">>,
       <<"f", "e", "b">>,
       <<"m", "a", "r">>,
       <<"a", "p", "r">>,
       <<"m", "a", "y">>,
       <<"j", "u", "n">>,
       <<"j", "u", "l">>,
       <<"a", "u", "g">>,
       <<"s", "e", "p">>,
       <<"o", "c", "t">>,
       <<"n", "o", "v">>,
       <<"d", "e", "c">> >>
MonthFull ==
    << <<"j", "a", "n", "u", "a", "r", "y">>,
       <<"f", "e", "b", "r", "u", "a", "r", "y">>,
       <<"m", "a", "r", "c", "h">>,
       <<"a", "p", "r", "i", "l">>,
       <<"m", "a", "y">>,
       <<"j", "u", "n", "e">>,
       <<"j", "u", "l", "y">>,
       <<"a", "u", "g", "u", "s", "t">>,
       <<"s", "e", "p", "t", "e", "m", "b", "e", "r">>,
       <<"o", "c", "t", "o", "b", "e", "r">>,
       <<"n", "o", "v", "e", "m", "b", "e", "r">>,
       <<"d", "e", "c", "e", "m", "b", "e", "r">> >>

IsLeap(y) == (y % 4 = 0 /\ y % 100 # 0) \/ y % 400 = 0
DaysInMonth(y, m) ==
    CASE m \in {1, 3, 5, 7, 8, 10, 12} -> 31
      [] m \in {4, 6, 9, 11} -> 30
      [] OTHER -> IF IsLeap(y) THEN 29 ELSE 28

\* The range checks of the datetime constructor.
ValidDateTime(y, mo, d, h, mi, sec) ==
    /\ y \in 1..9999
    /\ mo \in 1..12
    /\ d \in 1..DaysInMonth(y, mo)
    /\ h \in 0..23
    /\ mi \in 0..59
    /\ sec \in 0..59

NoDateTime == [ok |-> FALSE]
\* A datetime; aware says whether it carries a UTC offset, which is off
\* seconds and off_us microseconds.
DateTime(y, mo, d, h, mi, sec, us, aware, off, off_us) ==
    IF ValidDateTime(y, mo, d, h, mi, sec)
    THEN [ok |-> TRUE, year |-> y, month |-> mo, day |-> d, hour |-> h,
          minute |-> mi, second |-> sec, microsecond |-> us,
          aware |-> aware, off |-> off, off_us |-> off_us]
    ELSE NoDateTime

\* s.replace("Z", "+00:00")
ReplaceZ(s) ==
    Flatten([i \in 1..Len(s) |->
                IF s[i] = "Z" THEN <<"+", "0", "0", ":", "0", "0">> ELSE <<s[i]>>])

\* The result of reading a time of day or a UTC offset: rv is 0 when the
\* text was read to the end of the string, 1 when characters follow, and
\* negative when the text is malformed.
TimeError == [rv |-> 0 - 3, vals |-> <<0, 0, 0>>, us |-> 0]

\* The fraction of a second that starts at offset p of ext (the text of n
\* characters and the character that follows it): at most six digits are
\* read, further digits are skipped.
ParseFraction(ext, n, p, vals) ==
    LET len_remains == n - p
        to_parse == IF len_remains >= 6 THEN 6 ELSE len_remains
        digits == SubSeq(ext, p + 1, p + to_parse)
        correction == <<100000, 10000, 1000, 100, 10, 1>>
        stop == CHOOSE k \in (p + to_parse + 1)..Len(ext) :
                    /\ ~IsDigit(ext[k])
                    /\ \A j \in (p + to_parse + 1)..(k - 1) : IsDigit(ext[j])
    IN  IF ~AllDigits(digits) THEN TimeError
        ELSE [rv |-> IF ext[stop] = "NUL" THEN 0 ELSE 1, vals |-> vals,
              us |-> ToInt(digits) * correction[to_parse]]

\* datetime.fromisoformat reading HH[:MM[:SS[.ffffff]]] or HH[MM[SS]]: the
\* loop over the components i = 0, 1, 2 from offset p of ext.
RECURSIVE ParseHhMmSsFf(_, _, _, _, _, _)
ParseHhMmSsFf(ext, n, i, p, sep, vals) ==
    LET f == Slice(ext, p, p + 2)
    IN  IF Len(f) # 2 \/ ~AllDigits(f) THEN TimeError
        ELSE
          LET c == ext[p + 3]
              has_separator == IF i = 0 THEN c = ":" ELSE sep
              vals2 == [vals EXCEPT ![i + 1] = ToInt(f)]
              q == p + 3
          IN  IF q >= n
              THEN [rv |-> IF c = "NUL" THEN 0 ELSE 1, vals |-> vals2, us |-> 0]
              ELSE IF has_separator /\ c = ":"
                   THEN IF i = 2 THEN ParseFraction(ext, n, q, vals2)
                        ELSE ParseHhMmSsFf(ext, n, i + 1, q, has_separator, vals2)
              ELSE IF c \in {".", ","} THEN ParseFraction(ext, n, q, vals2)
              ELSE IF ~has_separator
                   THEN IF i = 2 THEN ParseFraction(ext, n, q - 1, vals2)
                        ELSE ParseHhMmSsFf(ext, n, i + 1, q - 1, has_separator, vals2)
              ELSE TimeError

\* t read as a time or an offset; follow is the character after t.
ReadTime(t, follow) == ParseHhMmSsFf(t \o <<follow>>, Len(t), 0, 0, FALSE, <<0, 0, 0>>)

\* datetime.fromisoformat(s), for the calendar-date forms YYYY-MM-DD and
\* YYYYMMDD (the week forms need a 'W', which no input text carries; every
\* 'Z' has been replaced before the call).  An offset of zero seconds is
\* UTC, whatever its fraction of a second.
fromisoformat(s) ==
    IF Len(s) < 8 THEN NoDateTime
    ELSE
      LET has_sep == s[5] = "-"
          sep == IF has_sep THEN 10 ELSE 8
          dstr == Slice(s, 0, sep)
          tstr == Slice(s, sep + 1, Len(s))
          ys == Slice(dstr, 0, 4)
          ms == IF has_sep THEN Slice(dstr, 5, 7) ELSE Slice(dstr, 4, 6)
          ds == IF has_sep THEN Slice(dstr, 8, 10) ELSE Slice(dstr, 6, 8)
          date_ok == /\ Len(dstr) = sep
                     /\ AllDigits(ys) /\ AllDigits(ms) /\ AllDigits(ds)
                     /\ (has_sep => dstr[8] = "-")
          signs == {i \in 1..Len(tstr) : tstr[i] \in {"+", "-"}}
          tz_pos == IF signs = {} THEN 0
                    ELSE CHOOSE i \in signs : \A j \in signs : i <= j
          timestr == IF tz_pos = 0 THEN tstr ELSE SubSeq(tstr, 1, tz_pos - 1)
          tzstr == IF tz_pos = 0 THEN <<>> ELSE SubSeq(tstr, tz_pos + 1, Len(tstr))
          tm == ReadTime(timestr, IF tz_pos = 0 THEN "NUL" ELSE tstr[tz_pos])
          tz == ReadTime(tzstr, "NUL")
          total == tz.vals[1] * 3600 + tz.vals[2] * 60 + tz.vals[3]
          tzsign == IF tstr[tz_pos] = "-" THEN 0 - 1 ELSE 1
      IN  IF ~date_ok THEN NoDateTime
          ELSE IF Len(s) = sep
               THEN DateTime(ToInt(ys), ToInt(ms), ToInt(ds), 0, 0, 0, 0, FALSE, 0, 0)
          ELSE IF tm.rv < 0 THEN NoDateTime
          ELSE IF tz_pos = 0
               THEN IF tm.rv = 1 THEN NoDateTime
                    ELSE DateTime(ToInt(ys), ToInt(ms), ToInt(ds),
                                  tm.vals[1], tm.vals[2], tm.vals[3], tm.us, FALSE, 0, 0)
          ELSE IF tz.rv # 0 \/ total >= 86400 THEN NoDateTime
          ELSE DateTime(ToInt(ys), ToInt(ms), ToInt(ds),
                        tm.vals[1], tm.vals[2], tm.vals[3], tm.us,
                        TRUE, tzsign * total, IF total = 0 THEN 0 ELSE tzsign * tz.us)

\* The seconds-precision date-time text YYYY-MM-DDTHH:MM:SS.
FormatDateTime(dt) ==
    Pad4(dt.year) \o <<"-">> \o Pad2(dt.month) \o <<"-">> \o Pad2(dt.day) \o <<"T">>
        \o Pad2(dt.hour) \o <<":">> \o Pad2(dt.minute) \o <<":">> \o Pad2(dt.second)

\* ".%06d"
Fraction6(us) == <<".">> \o Pad2(us \div 10000) \o Pad2((us \div 100) % 100) \o Pad2(us % 100)

\* The UTC offset as datetime.isoformat writes it: +HH:MM, then :SS if the
\* offset has seconds or microseconds, then .ffffff if it has microseconds.
FormatOffset(off, off_us) ==
    LET neg == off < 0 \/ off_us < 0
        a == IF off < 0 THEN 0 - off ELSE off
        us == IF off_us < 0 THEN 0 - off_us ELSE off_us
    IN  <<IF neg THEN "-" ELSE "+">>
            \o Pad2(a \div 3600) \o <<":">> \o Pad2((a % 3600) \div 60)
            \o (IF a % 60 = 0 /\ us = 0 THEN <<>> ELSE <<":">> \o Pad2(a % 60))
            \o (IF us = 0 THEN <<>> ELSE Fraction6(us))

\* dt.isoformat()
isoformat(dt) ==
    FormatDateTime(dt)
        \o (IF dt.microsecond = 0 THEN <<>> ELSE Fraction6(dt.microsecond))
        \o (IF dt.aware THEN FormatOffset(dt.off, dt.off_us) ELSE <<>>)

\* dt.strftime("%Y-%m-%dT%H:%M:%S"), for a year of four digits.
strftime(dt) == FormatDateTime(dt)

\* The pieces of s between the separator characters seps.
RECURSIVE Split(_, _)
Split(s, seps) ==
    LET at == {i \in 1..Len(s) : s[i] \in seps}
    IN  IF at = {} THEN <<s>>
        ELSE LET i == CHOOSE k \in at : \A j \in at : k <= j
             IN <<SubSeq(s, 1, i - 1)>> \o Split(SubSeq(s, i + 1, Len(s)), seps)

\* The numeric directives of strptime, as their regular expressions match.
\* %d: 3[0-1]|[1-2]\d|0[1-9]|[1-9]| [1-9]
DayField(f) ==
    \/ Len(f) = 2 /\ AllDigits(f) /\ ToInt(f) \in 1..31
    \/ Len(f) = 1 /\ AllDigits(f) /\ ToInt(f) \in 1..9
    \/ Len(f) = 2 /\ f[1] = " " /\ IsDigit(f[2]) /\ DigitVal(f[2]) \in 1..9
\* %H: 2[0-3]|[0-1]\d|\d      %M: [0-5]\d|\d      %S: 6[0-1]|[0-5]\d|\d
NumField(f, max) == Len(f) \in 1..2 /\ AllDigits(f) /\ ToInt(f) <= max
FieldVal(f) == IF f[1] = " " THEN ToInt(Tail(f)) ELSE ToInt(f)

\* The month whose name (one of names, matched without regard to case) is
\* name; 0 if none.
MonthOf(name, names) ==
    LET hit == {m \in 1..12 : names[m] = LowerStr(name)}
    IN  IF hit = {} THEN 0 ELSE CHOOSE m \in hit : TRUE

\* datetime.strptime(t, "%Y-%b-%dT%H:%M:%S")
strptime_YbdHMS(t) ==
    LET ys == Slice(t, 0, 4)
        mo == MonthOf(Slice(t, 5, 8), MonthAbbr)
        rest == Split(Slice(t, 9, Len(t)), {"T", "t"})
        hms == Split(rest[2], {":"})
    IN  IF /\ Len(t) >= 9
           /\ AllDigits(ys) /\ t[5] = "-" /\ mo # 0 /\ t[9] = "-"
           /\ Len(rest) = 2 /\ DayField(rest[1])
           /\ Len(hms) = 3
           /\ NumField(hms[1], 23) /\ NumField(hms[2], 59) /\ NumField(hms[3], 61)
        THEN DateTime(ToInt(ys), mo, FieldVal(rest[1]),
                      ToInt(hms[1]), ToInt(hms[2]), ToInt(hms[3]), 0, FALSE, 0, 0)
        ELSE NoDateTime

\* datetime.strptime(t, "%b. %d, %Y") when dot, (t, "%B %d, %Y") otherwise:
\* a month name, '.' if dot, white space, the day, ',', white space, the year.
strptime_bdY(t, names, dot) ==
    LET fits == {m \in 1..12 :
                    LET k == Len(names[m]) + (IF dot THEN 1 ELSE 0)
                        after == Slice(t, k, Len(t))
                        parts == Split(DropSpace(after), {","})
                    IN  /\ LowerStr(Slice(t, 0, Len(names[m]))) = names[m]
                        /\ dot => (Len(t) > Len(names[m]) /\ t[Len(names[m]) + 1] = ".")
                        /\ after # <<>> /\ IsSpace(after[1])
                        /\ Len(parts) = 2 /\ DayField(parts[1])
                        /\ parts[2] # <<>> /\ IsSpace(parts[2][1])
                        /\ Len(DropSpace(parts[2])) = 4 /\ AllDigits(DropSpace(parts[2]))}
    IN  IF fits = {} THEN NoDateTime
        ELSE LET m == CHOOSE k \in fits : TRUE
                 parts == Split(DropSpace(Slice(t, Len(names[m]) + (IF dot THEN 1 ELSE 0),
                                                Len(t))), {","})
             IN DateTime(ToInt(DropSpace(parts[2])), m, FieldVal(parts[1]),
                         0, 0, 0, 0, FALSE, 0, 0)

\* re.sub(r"^Updated\s+", "", s, flags=re.IGNORECASE).strip()
RemoveUpdated(s) ==
    LET word == <<"u", "p", "d", "a", "t", "e", "d">>
        after == Slice(s, Len(word), Len(s))
    IN  IF LowerStr(Slice(s, 0, Len(word))) = word /\ after # <<>> /\ IsSpace(after[1])
        THEN Strip(DropSpace(after))
        ELSE Strip(s)

\* The month-name strategy: the first 20 characters as %Y-%b-%dT%H:%M:%S,
\* then the UTC offset copied from the characters that follow.
MonthNameStrategy(s) ==
    LET dt == strptime_YbdHMS(Slice(s, 0, 20))
        iso == strftime(dt)
    IN  IF Len(s) > 20 /\ s[21] \in {"-", "+"} /\ Len(s) >= 26
        THEN IF Len(s) > 25 /\ s[24] = ":"
             THEN iso \o Slice(s, 20, 26)
             ELSE iso \o Slice(s, 20, 23) \o <<":">> \o Slice(s, 23, 25)
        ELSE iso

\* The "Jan. 26, 2026" strategies on one candidate: the abbreviated month
\* first, then the full month name.
MonthDayYear(c) ==
    LET abbr == strptime_bdY(c, MonthAbbr, TRUE)
    IN  IF abbr.ok THEN abbr ELSE strptime_bdY(c, MonthFull, FALSE)

\* parse_date_to_iso(date_str) for a non-empty string.
ParseDateString(date_str) ==
    LET s == Strip(date_str)
        dt == fromisoformat(ReplaceZ(s))
        prefix_removed == RemoveUpdated(s)
        first == MonthDayYear(prefix_removed)
        second == MonthDayYear(s)
    IN  IF s = <<>> THEN <<>>
        ELSE IF dt.ok THEN isoformat(dt)
        ELSE IF strptime_YbdHMS(Slice(s, 0, 20)).ok THEN MonthNameStrategy(s)
        ELSE IF first.ok THEN strftime(first)
        ELSE IF second.ok THEN strftime(second)
        ELSE <<>>

\* parse_date_to_iso(date_str): "" for a value that is empty or no string.
parse_date_to_iso(val) ==
    IF val.t # "str" \/ val.v = <<>> THEN <<>> ELSE ParseDateString(val.v)

(***************************************************************************)
(* cleaner.py: clean_article, clean                                        *)
(***************************************************************************)
\* The url of a cleaned article: "" for None, the cleaned text of a string,
\* str() of anything else.
CleanUrl(url) ==
    IF url.t = "null" THEN <<>>
    ELSE IF url.t = "str" THEN clean_text(url)
    ELSE PyStr(url)

\* clean_article(article): anything but a dict is returned as it is.
clean_article(a) ==
    IF a.t # "dict" THEN a
    ELSE JDict([url       |-> JStr(CleanUrl(Get(a, "url"))),
                title     |-> JStr(clean_text(Get(a, "title"))),
                content   |-> JStr(clean_text(Get(a, "content"))),
                published |-> JStr(IF Get(a, "published").t = "str"
                                   THEN parse_date_to_iso(Get(a, "published"))
                                   ELSE <<>>)])

\* The list clean() maps clean_article over: data.get("articles"), or the
\* empty list if that is no list.
ArticlesOf(d) ==
    IF Get(d, "articles").t = "list" THEN Get(d, "articles").v ELSE <<>>

\* A faulty step that leaves out what is no dict.
CleanedAppend_DictsOnly(acc, a) ==
    IF a.t # "dict" THEN acc ELSE Append(acc, clean_article(a))

\* One step of [clean_article(a) for a in articles].
CleanedAppend(acc, a) == Append(acc, clean_article(a))

\* The generated_at of the cleaned batch: clean_text(generated_at) or
\* generated_at, where None has become "" and a non-string its str().
CleanGeneratedAt(d) ==
    LET g == Get(d, "generated_at")
        generated_at == IF g.t = "null" THEN <<>>
                        ELSE IF g.t = "str" THEN g.v ELSE PyStr(g)
        text == clean_text(JStr(generated_at))
    IN  IF text # <<>> THEN text ELSE generated_at

(***************************************************************************)
(* validator.py: _strip, validate_record, _is_present                      *)
(***************************************************************************)
\* _strip(value)
strip(val) ==
    IF val.t = "null" THEN <<>>
    ELSE IF val.t = "str" THEN Strip(val.v)
    ELSE Strip(PyStr(val))

\* s.startswith(prefix)
startswith(s, prefix) == Slice(s, 0, Len(prefix)) = prefix

HttpPrefix == <<"h", "t", "t", "p", ":", "/", "/">>
HttpsPrefix == <<"h", "t", "t", "p", "s", ":", "/", "/">>

\* The shortest content that is not too short.
MinContentLen == 50

\* errors.append(code) if cond
AppendIf(errors, cond, code) == IF cond THEN Append(errors, code) ELSE errors

\* A faulty validate_record whose content_too_short check reads <= for <.
validate_record_AtMost(rec) ==
    IF rec.t # "dict" THEN <<FALSE, <<"invalid_record">>>>
    ELSE
      LET title == strip(Get(rec, "title"))
          content == strip(Get(rec, "content"))
          url == strip(Get(rec, "url"))
          e1 == AppendIf(<<>>, title = <<>>, "missing_title")
          e2 == AppendIf(e1, content = <<>>, "missing_content")
          e3 == AppendIf(e2, url = <<>>, "missing_url")
          e4 == AppendIf(e3, url # <<>> /\ ~(startswith(url, HttpPrefix)
                                             \/ startswith(url, HttpsPrefix)),
                         "invalid_url")
          errors == AppendIf(e4, content # <<>> /\ Len(content) <= MinContentLen,
                             "content_too_short")
      IN  <<Len(errors) = 0, errors>>

\* validate_record(record): <<is_valid, errors>>.
validate_record(rec) ==
    IF rec.t # "dict" THEN <<FALSE, <<"invalid_record">>>>
    ELSE
      LET title == strip(Get(rec, "title"))
          content == strip(Get(rec, "content"))
          url == strip(Get(rec, "url"))
          e1 == AppendIf(<<>>, title = <<>>, "missing_title")
          e2 == AppendIf(e1, content = <<>>, "missing_content")
          e3 == AppendIf(e2, url = <<>>, "missing_url")
          e4 == AppendIf(e3, url # <<>> /\ ~(startswith(url, HttpPrefix)
                                              \/ startswith(url, HttpsPrefix)),
                         "invalid_url")
          errors == AppendIf(e4, content # <<>> /\ Len(content) < MinContentLen,
                             "content_too_short")
      IN  <<Len(errors) = 0, errors>>

\* _is_present(record, key), for a record that is a dict (record.get raises
\* AttributeError for anything else).
is_present(rec, key) == strip(Get(rec, key)) # <<>>

(***************************************************************************)
(* validator.py: validate                                                  *)
(***************************************************************************)
ErrorCodes == {"missing_title", "missing_content", "missing_url", "invalid_url",
               "content_too_short", "invalid_record"}

\* The counters before the loop; error_counts is the Counter, which holds 0
\* for a code never counted.
ZeroTally ==
    [valid_count |-> 0, invalid_count |-> 0, title_present_count |-> 0,
     content_present_count |-> 0, url_present_count |-> 0,
     date_present_count |-> 0, error_counts |-> [c \in ErrorCodes |-> 0]]

\* for e in errors: error_counts[e] += 1
RECURSIVE CountErrors(_, _)
CountErrors(counts, errors) ==
    IF errors = <<>> THEN counts
    ELSE CountErrors([counts EXCEPT ![Head(errors)] = @ + 1], Tail(errors))

Inc(cond) == IF cond THEN 1 ELSE 0

\* A faulty loop body that assigns the reasons of the record to
\* error_counts instead of adding them.
TallyRecord_LastErrors(t, rec) ==
    LET v == validate_record(rec)
    IN  [valid_count           |-> t.valid_count + Inc(v[1]),
         invalid_count         |-> t.invalid_count + Inc(~v[1]),
         title_present_count   |-> t.title_present_count + Inc(is_present(rec, "title")),
         content_present_count |-> t.content_present_count + Inc(is_present(rec, "content")),
         url_present_count     |-> t.url_present_count + Inc(is_present(rec, "url")),
         date_present_count    |-> t.date_present_count + Inc(is_present(rec, "published")),
         error_counts          |-> IF v[1] THEN t.error_counts
                                   ELSE CountErrors([c \in ErrorCodes |-> 0], v[2])]

\* A faulty loop body that adds the number of reasons to invalid_count.
TallyRecord_CountsReasons(t, rec) ==
    LET v == validate_record(rec)
    IN  [valid_count           |-> t.valid_count + Inc(v[1]),
         invalid_count         |-> t.invalid_count + Len(v[2]),
         title_present_count   |-> t.title_present_count + Inc(is_present(rec, "title")),
         content_present_count |-> t.content_present_count + Inc(is_present(rec, "content")),
         url_present_count     |-> t.url_present_count + Inc(is_present(rec, "url")),
         date_present_count    |-> t.date_present_count + Inc(is_present(rec, "published")),
         error_counts          |-> IF v[1] THEN t.error_counts
                                   ELSE CountErrors(t.error_counts, v[2])]

\* One pass of the loop body of validate, for a record that is a dict.
TallyRecord(t, rec) ==
    LET v == validate_record(rec)
    IN  [valid_count           |-> t.valid_count + Inc(v[1]),
         invalid_count         |-> t.invalid_count + Inc(~v[1]),
         title_present_count   |-> t.title_present_count + Inc(is_present(rec, "title")),
         content_present_count |-> t.content_present_count + Inc(is_present(rec, "content")),
         url_present_count     |-> t.url_present_count + Inc(is_present(rec, "url")),
         date_present_count    |-> t.date_present_count + Inc(is_present(rec, "published")),
         error_counts          |-> IF v[1] THEN t.error_counts
                                   ELSE CountErrors(t.error_counts, v[2])]

\* round(100.0 * count / total, 2) if total else 0, in hundredths of a
\* percent: the nearest hundredth, the even one of two equally near.
Percent(count, total) ==
    IF total = 0 THEN 0
    ELSE LET n == 10000 * count
             q == n \div total
             r == n % total
         IN  IF 2 * r > total \/ (2 * r = total /\ q % 2 = 1) THEN q + 1 ELSE q

\* The articles validate and save_valid_only go through: data.get("articles",
\* []), or the empty list if that is no list.
RecordsOf(b) ==
    IF GetOr(b, "articles", JList(<<>>)).t = "list" THEN b.v.articles.v ELSE <<>>

\* The dict validate returns; error_counts has the codes counted at least once.
ValidateResult(t, total) ==
    [total_records         |-> total,
     valid_count           |-> t.valid_count,
     invalid_count         |-> t.invalid_count,
     title_present_count   |-> t.title_present_count,
     content_present_count |-> t.content_present_count,
     url_present_count     |-> t.url_present_count,
     date_present_count    |-> t.date_present_count,
     title_percent         |-> Percent(t.title_present_count, total),
     content_percent       |-> Percent(t.content_present_count, total),
     url_percent           |-> Percent(t.url_present_count, total),
     date_percent          |-> Percent(t.date_present_count, total),
     error_counts          |-> [c \in {e \in ErrorCodes : t.error_counts[e] > 0} |->
                                    t.error_counts[c]]]

\* The outcome of validate when a record that is no dict reaches _is_present.
Raised == [raised |-> "AttributeError"]

\* validate(data) as a whole: the loop over the articles in their order.
RECURSIVE ValidateLoop(_, _)
ValidateLoop(t, records) ==
    IF records = <<>> THEN t
    ELSE ValidateLoop(TallyRecord(t, Head(records)), Tail(records))

validate(b) ==
    IF \E i \in 1..Len(RecordsOf(b)) : RecordsOf(b)[i].t # "dict" THEN Raised
    ELSE ValidateResult(ValidateLoop(ZeroTally, RecordsOf(b)), Len(RecordsOf(b)))

(***************************************************************************)
(* validator.py: write_report, save_valid_only                             *)
(***************************************************************************)
\* The reason codes in ascending lexicographic order.
CodesAscending == <<"content_too_short", "invalid_record", "invalid_url",
                    "missing_content", "missing_title", "missing_url">>
CodeRank(c) == CHOOSE i \in 1..Len(CodesAscending) : CodesAscending[i] = c

\* The sort key (-count, code) of a row precedes that of another.
RowBefore(counts, c, d) ==
    counts[c] > counts[d] \/ (counts[c] = counts[d] /\ CodeRank(c) < CodeRank(d))

\* sorted(error_counts.items(), key=lambda x: (-x[1], x[0]))
RECURSIVE SortedErrors(_, _)
SortedErrors(counts, codes) ==
    IF codes = {} THEN <<>>
    ELSE LET c == CHOOSE x \in codes : \A y \in codes \ {x} : RowBefore(counts, x, y)
         IN  <<<<c, counts[c]>>>> \o SortedErrors(counts, codes \ {c})

\* The lines write_report writes, as the values they show.
Report(res) ==
    [total_line   |-> res.total_records,
     valid_line   |-> res.valid_count,
     invalid_line |-> res.invalid_count,
     completeness |-> <<res.title_percent, res.content_percent,
                        res.url_percent, res.date_percent>>,
     failures     |-> SortedErrors(res.error_counts, DOMAIN res.error_counts)]

\* A faulty filter that validates dicts only and keeps everything else.
RECURSIVE ValidOnly_DictsChecked(_)
ValidOnly_DictsChecked(records) ==
    IF records = <<>> THEN <<>>
    ELSE IF Head(records).t # "dict" \/ validate_record(Head(records))[1]
         THEN <<Head(records)>> \o ValidOnly_DictsChecked(Tail(records))
         ELSE ValidOnly_DictsChecked(Tail(records))

\* [r for r in articles if validate_record(r)[0]]
RECURSIVE ValidOnly(_)
ValidOnly(records) ==
    IF records = <<>> THEN <<>>
    ELSE IF validate_record(Head(records))[1]
         THEN <<Head(records)>> \o ValidOnly(Tail(records))
         ELSE ValidOnly(Tail(records))

\* The batch save_valid_only writes.
SavedBatch(b) ==
    JDict([generated_at |-> GetOr(b, "generated_at", JStr(<<>>)),
           articles     |-> JList(ValidOnly(RecordsOf(b)))])

(***************************************************************************)
(* Input texts: concatenations of at most MaxChunks pieces.                *)
(***************************************************************************)
Chunks ==
    { <<"&", "a", "m", "p", ";">>, <<"l", "t", ";">>, <<"g", "t", ";">>,
      <<"&", "z", "w", "j", ";">>, <<"&">>, <<"<">>, <<">">>, <<"b">>, <<" ">>,
      <<"SOH">>, <<"DEL">>, <<"NBSP">>, <<"ZWSP">> }

Texts(n) == {Flatten(ss) : ss \in UNION {[1..k -> Chunks] : k \in 0..n}}


(***************************************************************************)
(* Input dates: a date text followed by a suffix of at most MaxSuffix      *)
(* characters, which is empty or starts with '+', '-' or 'Z'.              *)
(***************************************************************************)
DateHeads ==
    { <<"2", "0", "2", "6", "-", "0", "2", "-", "0", "1", "T", "1", "3", ":", "2", "8", ":", "2", "7">>,
      <<"2", "0", "2", "6", "-", "F", "e", "b", "-", "0", "1", "T", "1", "3", ":", "2", "8", ":", "2", "7">>,
      <<" ", "2", "0", "2", "6", "-", "F", "e", "b", "-", "0", "1", "T", "1", "3", ":", "2", "8", ":", "2", "7">>,
      <<"2", "0", "2", "6", "-", "f", "e", "b", "-", " ", "1", "t", "1", "3", ":", "2", "8", ":", "2", "7">>,
      <<"2", "0", "2", "6", "-", "F", "e", "b", "-", "3", "1", "T", "1", "3", ":", "2", "8", ":", "2", "7">>,
      <<"2", "0", "2", "6", "-", "F", "e", "b", "-", "1", "T", "1", ":", "2", ":", "3">>,
      <<"2", "0", "2", "4", "-", "0", "2", "-", "2", "9">>,
      <<"2", "0", "2", "6", "0", "2", "0", "1", "T", "1", "3", "2", "8">>,
      <<"J", "a", "n", ".", " ", "2", "6", ",", " ", "2", "0", "2", "6">>,
      <<"U", "p", "d", "a", "t", "e", "d", " ", " ", "J", "a", "n", ".", " ", "2", "6", ",", " ", "2", "0", "2", "6">>,
      <<"J", "a", "n", "u", "a", "r", "y", " ", "2", "6", ",", " ", "2", "0", "2", "6">>,
      <<"u", "p", "d", "a", "t", "e", "d", " ", "M", "a", "y", " ", "5", ",", " ", "2", "0", "2", "6">>,
      <<"F", "e", "b", ".", " ", "3", "0", ",", " ", "2", "0", "2", "6">>,
      <<"n", "o", "t", " ", "a", " ", "d", "a", "t", "e">>,
      <<>> }

SuffixSigns == {"+", "-", "Z"}
SuffixChars == {"0", "5", ":", "x"}

Suffixes(n) ==
    {<<>>} \cup
    UNION {{<<sg>> \o [i \in 1..k |-> f[i]] : sg \in SuffixSigns, f \in [1..k -> SuffixChars]} :
               k \in 0..(n - 1)}

DateTexts(n) == {h \o x : h \in DateHeads, x \in Suffixes(n)}

(***************************************************************************)
(* Input articles of clean_article: url, title and content are absent,     *)
(* null, a number, a text or a list of one text.                           *)
(***************************************************************************)
Number123 == JInt(<<1, 2, 3>>)

UrlValues(p) == {JAbsent, JNull, Number123, JStr(p), JList(<<JStr(p)>>)}
TextValues(p) == {JAbsent, Number123, JStr(p)}
PublishedValues ==
    {JAbsent, Number123, JStr(<<"2", "0", "2", "6", "-", "F", "e", "b", "-", "0", "1", "T", "1", "3", ":", "2", "8", ":", "2", "7", "-", "0", "5", ":", "0", "0">>)}

Articles(n) ==
    {JDict([url |-> u, title |-> t, content |-> c, published |-> d]) :
        u \in UNION {UrlValues(p) : p \in Texts(n)},
        t \in {JStr(<<"T">>)}, c \in {JStr(<<"c">>)}, d \in PublishedValues}
    \cup
    {JDict([url |-> JStr(<<"u">>), title |-> t, content |-> c, published |-> JAbsent]) :
        <<t, c>> \in UNION {TextValues(p) \X TextValues(p) : p \in Texts(n)}}

(***************************************************************************)
(* Input batches of clean: a dict with a list of at most MaxArticles       *)
(* elements, a dict whose articles are no list, or no dict at all.         *)
(***************************************************************************)
RawArticle ==
    JDict([url       |-> JStr(<<" ", "h", "t", "t", "p", ":", "/", "/", "a", "<", "b", ">">>),
           title     |-> JStr(<<" ", "<", "b", ">", "H", "i", "<", "/", "b", ">", "&", "n", "b", "s", "p", ";", "t", " ">>),
           content   |-> JStr(<<"c">>),
           published |-> JStr(<<"2", "0", "2", "6", "-", "F", "e", "b", "-", "0", "1", "T", "1", "3", ":", "2", "8", ":", "2", "7", "-", "0", "5", ":", "0", "0">>)])
OddArticle ==
    JDict([url |-> Number123, title |-> JAbsent, content |-> JNull,
           published |-> Number123])
TidyArticle ==
    JDict([url       |-> JStr(<<"h", "t", "t", "p", "s", ":", "/", "/", "a">>),
           title     |-> JStr(<<"T">>),
           content   |-> JStr(<<"c">>),
           published |-> JStr(<<>>)])

CleanElements == {RawArticle, OddArticle, TidyArticle, JStr(<<"x">>), JInt(<<7>>)}

SeqsUpTo(S, n) == UNION {[1..k -> S] : k \in 0..n}

CleanBatches(n) ==
    {JDict([generated_at |-> g, articles |-> JList(s)]) :
        g \in {JStr(<<" ", "g", "NBSP">>), JStr(<<"SOH">>), JAbsent, JInt(<<7>>)},
        s \in SeqsUpTo(CleanElements, n)}
    \cup {JDict([generated_at |-> JNull, articles |-> a]) : a \in {JAbsent, JNull, JStr(<<"x">>)}}
    \cup {JStr(<<"x">>), JList(<<RawArticle>>), JNull}

(***************************************************************************)
(* Input records of validate_record: title, content and url are absent,    *)
(* null, a number, a boolean, or a text with at most MaxPad blanks before  *)
(* and after it.                                                           *)
(***************************************************************************)
Blanks(k) == [i \in 1..k |-> " "]
Xs(k) == [i \in 1..k |-> "x"]

TitleValues ==
    {JAbsent, JNull, JInt(<<0>>), JBool(FALSE), JStr(<<>>), JStr(<<"LF", " ">>), JStr(<<"T">>)}

ContentValues(pad) ==
    {JAbsent, JNull, Number123, JList(<<>>)}
    \cup {JStr(Blanks(l) \o Xs(k) \o Blanks(r)) :
            l \in 0..pad, r \in 0..pad,
            k \in {0, 1, MinContentLen - 1, MinContentLen, MinContentLen + 1}}

UrlTexts ==
    { <<>>, <<"h", "t", "t", "p", ":", "/", "/", "a">>, <<"h", "t", "t", "p", "s", ":", "/", "/", "a">>, <<"h", "t", "t", "p", ":", "/", "/">>, <<"h", "t", "t", "p", "s", ":", "/", "/">>, <<"f", "t", "p", ":", "/", "/", "a">>, <<"H", "T", "T", "P", ":", "/", "/", "a">>, <<"h", "t", "t", "p", ":", "/", "a">>, <<"a", " ", "h", "t", "t", "p", ":", "/", "/">>, <<"h", "t", "t", "p", "s", ":">> }

RecordUrlValues(pad) ==
    {JAbsent, JNull, Number123, JBool(TRUE)}
    \cup {JStr(Blanks(k) \o u \o Blanks(k)) : k \in 0..pad, u \in UrlTexts}

Records(pad) ==
    {JDict([url |-> u, title |-> t, content |-> c, published |-> JAbsent]) :
        u \in RecordUrlValues(pad), t \in TitleValues, c \in ContentValues(pad)}
    \cup {JStr(<<"x">>), JInt(<<7>>), JNull, JList(<<>>)}

(***************************************************************************)
(* Input batches of the validator: a dict with a list of at most           *)
(* MaxArticles elements, or a dict whose articles are no list.             *)
(***************************************************************************)
ValidRecord ==
    JDict([url       |-> JStr(<<"h", "t", "t", "p", "s", ":", "/", "/", "a">>),
           title     |-> JStr(<<"T">>),
           content   |-> JStr(Xs(MinContentLen)),
           published |-> JStr(<<"2", "0", "2", "6", "-", "0", "2", "-", "0", "1", "T", "1", "3", ":", "2", "8", ":", "2", "7">>)])
UntitledRecord ==
    JDict([url       |-> JStr(<<"h", "t", "t", "p", ":", "/", "/", "a">>),
           title     |-> JStr(<<>>),
           content   |-> JStr(Xs(MinContentLen)),
           published |-> JStr(<<>>)])
ShortRecord ==
    JDict([url       |-> JStr(<<"f", "t", "p", ":", "/", "/", "a">>),
           title     |-> Number123,
           content   |-> JStr(<<"c">>),
           published |-> JNull])
EmptyRecord ==
    JDict([url |-> JAbsent, title |-> JAbsent, content |-> JAbsent, published |-> JAbsent])

MainElements == {ValidRecord, UntitledRecord, ShortRecord, EmptyRecord, JStr(<<"x">>)}

MainBatches(n) ==
    {JDict([generated_at |-> g, articles |-> JList(s)]) :
        g \in {JStr(<<"g">>), JAbsent, JNull}, s \in SeqsUpTo(MainElements, n)}
    \cup {JDict([generated_at |-> JStr(<<"g">>), articles |-> a]) :
            a \in {JAbsent, JNull, JStr(<<"x">>)}}

\* The orders a list of n elements can be handed over in.
Orders(n) == {p \in [1..n -> 1..n] : \A i, j \in 1..n : p[i] = p[j] => i = j}

\* The batch b with its articles in the order p.
Permuted(b, p) ==
    IF p = <<>> THEN b
    ELSE [b EXCEPT !.v.articles.v = [i \in 1..Len(p) |-> b.v.articles.v[p[i]]]]

(***************************************************************************)
(* A function that takes no part in a specification rests idle.            *)
(***************************************************************************)
NoResult == [none |-> TRUE]

TextIdle == value = JNull /\ once = JNull /\ twice = JNull /\ tpc = "idle"
DateIdle == date_value = JNull /\ date_iso = JNull /\ dpc = "idle"
ArticleIdle == article = JNull /\ cleaned_article = JNull /\ apc = "idle"
CleanIdle ==
    data = JNull /\ cleaned_articles = <<>> /\ ci = 0 /\ cleaned = JNull /\ cpc = "idle"
RecordIdle == record = JNull /\ verdict = <<FALSE, <<>>>> /\ rpc = "idle"
MainIdle ==
    /\ base = JNull /\ batch = JNull /\ vi = 0 /\ tally = ZeroTally
    /\ result = NoResult /\ report = NoResult /\ saved = JNull /\ vpc = "idle"

(***************************************************************************)
(* SpecText: clean_text applied to a text, then to its own result.         *)
(***************************************************************************)
TextInit ==
    /\ value \in {JStr(s) : s \in Texts(MaxChunks)}
    /\ once = JNull
    /\ twice = JNull
    /\ tpc = "start"
    /\ DateIdle /\ ArticleIdle /\ CleanIdle /\ RecordIdle /\ MainIdle

CleanOnce ==
    /\ tpc = "start"
    /\ once' = JStr(clean_text(value))
    /\ tpc' = "once"
    /\ UNCHANGED <<value, twice, dateVars, articleVars, cleanVars, recordVars, mainVars>>

CleanTwice ==
    /\ tpc = "once"
    /\ twice' = JStr(clean_text(once))
    /\ tpc' = "twice"
    /\ UNCHANGED <<value, once, dateVars, articleVars, cleanVars, recordVars, mainVars>>

TextNext == CleanOnce \/ CleanTwice

SpecText == TextInit /\ [][TextNext]_vars

(***************************************************************************)
(* SpecDate: parse_date_to_iso applied to a value.                         *)
(***************************************************************************)
DateInit ==
    /\ date_value \in {JStr(s) : s \in DateTexts(MaxSuffix)} \cup {JNull, JInt(<<2, 0, 2, 6>>)}
    /\ date_iso = JNull
    /\ dpc = "start"
    /\ TextIdle /\ ArticleIdle /\ CleanIdle /\ RecordIdle /\ MainIdle

ParseDate ==
    /\ dpc = "start"
    /\ date_iso' = JStr(parse_date_to_iso(date_value))
    /\ dpc' = "parsed"
    /\ UNCHANGED <<date_value, textVars, articleVars, cleanVars, recordVars, mainVars>>

DateNext == ParseDate

SpecDate == DateInit /\ [][DateNext]_vars

(***************************************************************************)
(* SpecArticle: clean_article applied to a dict.                           *)
(***************************************************************************)
ArticleInit ==
    /\ article \in Articles(MaxFieldChunks)
    /\ cleaned_article = JNull
    /\ apc = "start"
    /\ TextIdle /\ DateIdle /\ CleanIdle /\ RecordIdle /\ MainIdle

CleanArticle ==
    /\ apc = "start"
    /\ cleaned_article' = clean_article(article)
    /\ apc' = "cleaned"
    /\ UNCHANGED <<article, textVars, dateVars, cleanVars, recordVars, mainVars>>

ArticleNext == CleanArticle

SpecArticle == ArticleInit /\ [][ArticleNext]_vars

(***************************************************************************)
(* SpecClean: clean(data), the list of cleaned articles built one          *)
(* article at a time.                                                      *)
(***************************************************************************)
CleanInit ==
    /\ data \in CleanBatches(MaxArticles)
    /\ cleaned_articles = <<>>
    /\ ci = 0
    /\ cleaned = JNull
    /\ cpc = "start"
    /\ TextIdle /\ DateIdle /\ ArticleIdle /\ RecordIdle /\ MainIdle

\* if not isinstance(data, dict): return data
CleanPassThrough ==
    /\ cpc = "start"
    /\ data.t # "dict"
    /\ cleaned' = data
    /\ cpc' = "done"
    /\ UNCHANGED <<data, cleaned_articles, ci,
                   textVars, dateVars, articleVars, recordVars, mainVars>>

\* generated_at and articles are read; the loop starts.
CleanBegin ==
    /\ cpc = "start"
    /\ data.t = "dict"
    /\ cleaned_articles' = <<>>
    /\ ci' = 0
    /\ cpc' = "loop"
    /\ UNCHANGED <<data, cleaned, textVars, dateVars, articleVars, recordVars, mainVars>>

\* One article of [clean_article(a) for a in articles].
CleanStep ==
    /\ cpc = "loop"
    /\ ci < Len(ArticlesOf(data))
    /\ cleaned_articles' = CleanedAppend(cleaned_articles, ArticlesOf(data)[ci + 1])
    /\ ci' = ci + 1
    /\ UNCHANGED <<data, cleaned, cpc, textVars, dateVars, articleVars, recordVars, mainVars>>

\* return {"generated_at": ..., "articles": cleaned_articles}
CleanReturn ==
    /\ cpc = "loop"
    /\ ci = Len(ArticlesOf(data))
    /\ cleaned' = JDict([generated_at |-> JStr(CleanGeneratedAt(data)),
                         articles     |-> JList(cleaned_articles)])
    /\ cpc' = "done"
    /\ UNCHANGED <<data, cleaned_articles, ci,
                   textVars, dateVars, articleVars, recordVars, mainVars>>

CleanNext == CleanPassThrough \/ CleanBegin \/ CleanStep \/ CleanReturn

SpecClean == CleanInit /\ [][CleanNext]_vars

(***************************************************************************)
(* SpecRecord: validate_record applied to a record.                        *)
(***************************************************************************)
RecordInit ==
    /\ record \in Records(MaxPad)
    /\ verdict = <<FALSE, <<>>>>
    /\ rpc = "start"
    /\ TextIdle /\ DateIdle /\ ArticleIdle /\ CleanIdle /\ MainIdle

ValidateRecord ==
    /\ rpc = "start"
    /\ verdict' = validate_record(record)
    /\ rpc' = "validated"
    /\ UNCHANGED <<record, textVars, dateVars, articleVars, cleanVars, mainVars>>

RecordNext == ValidateRecord

SpecRecord == RecordInit /\ [][RecordNext]_vars

(***************************************************************************)
(* SpecMain: validator.main.  The batch is handed to validate with its     *)
(* articles in any order; validate goes through them one at a time, then   *)
(* the report is written and the valid records are saved.                  *)
(***************************************************************************)
MainInit ==
    /\ base \in MainBatches(MaxArticles)
    /\ batch \in {Permuted(base, p) : p \in Orders(Len(RecordsOf(base)))}
    /\ vi = 0
    /\ tally = ZeroTally
    /\ result = NoResult
    /\ report = NoResult
    /\ saved = JNull
    /\ vpc = "loop"
    /\ TextIdle /\ DateIdle /\ ArticleIdle /\ CleanIdle /\ RecordIdle

\* The loop body of validate on a record that is a dict.
ValidateStep ==
    /\ vpc = "loop"
    /\ vi < Len(RecordsOf(batch))
    /\ RecordsOf(batch)[vi + 1].t = "dict"
    /\ tally' = TallyRecord(tally, RecordsOf(batch)[vi + 1])
    /\ vi' = vi + 1
    /\ UNCHANGED <<base, batch, result, report, saved, vpc,
                   textVars, dateVars, articleVars, cleanVars, recordVars>>

\* The loop body on a record that is no dict: _is_present calls record.get,
\* the AttributeError leaves validate and main.
ValidateRaise ==
    /\ vpc = "loop"
    /\ vi < Len(RecordsOf(batch))
    /\ RecordsOf(batch)[vi + 1].t # "dict"
    /\ result' = Raised
    /\ vpc' = "raised"
    /\ UNCHANGED <<base, batch, vi, tally, report, saved,
                   textVars, dateVars, articleVars, cleanVars, recordVars>>

\* The percentages are computed and the result returned.
ValidateReturn ==
    /\ vpc = "loop"
    /\ vi = Len(RecordsOf(batch))
    /\ result' = ValidateResult(tally, Len(RecordsOf(batch)))
    /\ vpc' = "report"
    /\ UNCHANGED <<base, batch, vi, tally, report, saved,
                   textVars, dateVars, articleVars, cleanVars, recordVars>>

WriteReport ==
    /\ vpc = "report"
    /\ report' = Report(result)
    /\ vpc' = "save"
    /\ UNCHANGED <<base, batch, vi, tally, result, saved,
                   textVars, dateVars, articleVars, cleanVars, recordVars>>

SaveValidOnly ==
    /\ vpc = "save"
    /\ saved' = SavedBatch(batch)
    /\ vpc' = "done"
    /\ UNCHANGED <<base, batch, vi, tally, result, report,
                   textVars, dateVars, articleVars, cleanVars, recordVars>>

MainNext == ValidateStep \/ ValidateRaise \/ ValidateReturn \/ WriteReport \/ SaveValidOnly

SpecMain == MainInit /\ [][MainNext]_vars

(***************************************************************************)
(* SpecSave: save_valid_only called on a batch.                            *)
(***************************************************************************)
SaveInit ==
    /\ base \in MainBatches(MaxArticles)
    /\ batch = base
    /\ vi = 0
    /\ tally = ZeroTally
    /\ result = NoResult
    /\ report = NoResult
    /\ saved = JNull
    /\ vpc = "save"
    /\ TextIdle /\ DateIdle /\ ArticleIdle /\ CleanIdle /\ RecordIdle

SaveNext == SaveValidOnly

SpecSave == SaveInit /\ [][SaveNext]_vars

(***************************************************************************)
(* Properties of the normalizer.                                           *)
(***************************************************************************)
\* C1: clean_text is idempotent: cleaning a cleaned text changes nothing.
C1_Idempotent == tpc = "twice" => twice = once

\* s has an HTML tag: a '<', one or more characters other than '>', a '>'.
HasTag(s) ==
    \E i, j \in 1..Len(s) :
        /\ j >= i + 2
        /\ s[i] = "<" /\ s[j] = ">"
        /\ \A k \in (i + 1)..(j - 1) : s[k] # ">"
\* s has a character reference: decoding s changes it.
HasEntity(s) == unescape(s) # s
HasInvisible(s) == \E i \in 1..Len(s) : s[i] \in INVISIBLE_TO_SPACE
HasControl(s) == \E i \in 1..Len(s) : Ord(s[i]) < 32 \/ Ord(s[i]) = 127

\* C2: title, content and url of a cleaned article have no HTML tag, no
\* character reference, no invisible character and no control character.
C2_FieldsClean ==
    apc = "cleaned" =>
        \A f \in {"title", "content", "url"} :
            LET s == cleaned_article.v[f].v
            IN  ~HasTag(s) /\ ~HasEntity(s) /\ ~HasInvisible(s) /\ ~HasControl(s)

\* A UTC offset of the form +HH:MM or -HH:MM.
IsOffset(r) ==
    /\ Len(r) = 6
    /\ r[1] \in {"+", "-"}
    /\ IsDigit(r[2]) /\ IsDigit(r[3]) /\ r[4] = ":" /\ IsDigit(r[5]) /\ IsDigit(r[6])
\* A fraction of a second: '.' and digits.
IsFraction(r) == Len(r) >= 2 /\ r[1] = "." /\ AllDigits(Tail(r))
\* YYYY-MM-DDTHH:MM:SS
IsDateTimeText(r) ==
    /\ Len(r) = 19
    /\ \A i \in {1, 2, 3, 4, 6, 7, 9, 10, 12, 13, 15, 16, 18, 19} : IsDigit(r[i])
    /\ r[5] = "-" /\ r[8] = "-" /\ r[11] = "T" /\ r[14] = ":" /\ r[17] = ":"
\* A canonical timestamp: the date and time, then a fraction of a second
\* if any, then a UTC offset if any.
IsCanonical(s) ==
    /\ IsDateTimeText(Slice(s, 0, 19))
    /\ LET rest == Slice(s, 19, Len(s))
       IN  \/ rest = <<>>
           \/ IsFraction(rest)
           \/ IsOffset(rest)
           \/ Len(rest) > 6 /\ IsFraction(Slice(rest, 0, Len(rest) - 6))
                            /\ IsOffset(Slice(rest, Len(rest) - 6, Len(rest)))

\* C4: the result of parse_date_to_iso is empty or a canonical timestamp.
C4_CanonicalOrEmpty ==
    dpc = "parsed" => date_iso.v = <<>> \/ IsCanonical(date_iso.v)

\* A bare UTC offset +HHMM or -HHMM.
IsBareOffset(r) ==
    /\ Len(r) = 5
    /\ r[1] \in {"+", "-"}
    /\ \A i \in 2..5 : IsDigit(r[i])

\* C5: a month-name timestamp that is not ISO 8601, followed by an offset
\* +HH:MM or +HHMM (either sign), is parsed to the timestamp followed by the
\* offset as +HH:MM.
C5_OffsetKept ==
    (dpc = "parsed" /\ date_value.t = "str") =>
        LET s == Strip(date_value.v)
            dt == strptime_YbdHMS(Slice(s, 0, 20))
            suffix == Slice(s, 20, Len(s))
        IN  (/\ ~fromisoformat(ReplaceZ(s)).ok
             /\ Len(s) > 20 /\ dt.ok
             /\ (IsOffset(suffix) \/ IsBareOffset(suffix)))
            => date_iso.v = strftime(dt)
                   \o (IF IsOffset(suffix) THEN suffix
                       ELSE Slice(suffix, 0, 3) \o <<":">> \o Slice(suffix, 3, 5))

\* C8: the cleaned batch has as many articles as the batch, the i-th one
\* is clean_article of the i-th article, and what is no dict is passed on
\* as it is; while the list is built it has one element per article read.
C8_CountAndOrderKept ==
    /\ cpc = "loop" => Len(cleaned_articles) = ci
    /\ (cpc = "done" /\ data.t = "dict" /\ Get(data, "articles").t = "list") =>
          LET xs == Get(data, "articles").v
              ys == cleaned.v.articles.v
          IN  /\ Len(ys) = Len(xs)
              /\ \A i \in 1..Len(xs) :
                    /\ ys[i] = clean_article(xs[i])
                    /\ xs[i].t # "dict" => ys[i] = xs[i]

\* A batch with a cleaned dict after an element that is no dict.
C8_Witness ==
    /\ cpc = "done" /\ data.t = "dict" /\ Get(data, "articles").t = "list"
    /\ \E i, j \in 1..Len(Get(data, "articles").v) :
          /\ i < j
          /\ Get(data, "articles").v[i].t # "dict"
          /\ Get(data, "articles").v[j].t = "dict"
          /\ cleaned.v.articles.v[j] # Get(data, "articles").v[j]

(***************************************************************************)
(* Properties of the validator.                                            *)
(***************************************************************************)
\* The number of elements of a batch that are no dict.
NonRecords(b) == Cardinality({i \in 1..Len(RecordsOf(b)) : RecordsOf(b)[i].t # "dict"})

\* C3: validate completes on a batch with an element that is no dict, and
\* counts each such element in total_records, invalid_count and under
\* invalid_record.
C3_NonRecordCounted ==
    /\ vpc # "raised"
    /\ (vpc \in {"report", "save", "done"} /\ NonRecords(batch) > 0) =>
          /\ result.total_records = Len(RecordsOf(batch))
          /\ result.invalid_count >= NonRecords(batch)
          /\ "invalid_record" \in DOMAIN result.error_counts
          /\ result.error_counts["invalid_record"] = NonRecords(batch)

\* The reason codes in the order of the rules.
RuleOrder == <<"missing_title", "missing_content", "missing_url", "invalid_url",
               "content_too_short">>

C7_OrderIndependent ==
    vpc \in {"report", "raised", "save", "done"} => result = validate(base)

\* A batch handed over in another order, with valid and invalid records.
C7_Witness ==
    /\ vpc = "report"
    /\ batch # base
    /\ result.valid_count > 0
    /\ Cardinality(DOMAIN result.error_counts) > 1

\* C9: save_valid_only writes the valid articles of the batch, all of them
\* and in their order, with the generated_at of the batch, and leaves the
\* batch as it was.
C9_ValidOnlySaved ==
    vpc = "done" =>
        LET xs == RecordsOf(batch)
            ys == saved.v.articles.v
            keep == {i \in 1..Len(xs) : validate_record(xs[i])[1]}
            Nth(k) == CHOOSE i \in keep : Cardinality({j \in keep : j <= i}) = k
        IN  /\ Len(ys) = Cardinality(keep)
            /\ \A k \in 1..Len(ys) : ys[k] = xs[Nth(k)]
            /\ batch.v.generated_at.t # "absent" =>
                  saved.v.generated_at = batch.v.generated_at
            /\ batch = base

\* A batch of which a valid record is kept after dropped ones, one of them
\* no dict.
C9_Witness ==
    /\ vpc = "done"
    /\ result = NoResult
    /\ Len(RecordsOf(batch)) = 3
    /\ RecordsOf(batch)[1].t # "dict"
    /\ RecordsOf(batch)[2].t = "dict"
    /\ saved.v.articles.v = <<RecordsOf(batch)[3]>>

\* C10: while validate counts, valid_count + invalid_count is the number
\* of records counted so far; at the end it is total_records, and
\* valid_count, the "Valid records" line of the report, is the number of
\* articles save_valid_only keeps.
C10_ReportAndFilterAgree ==
    /\ vpc = "loop" => tally.valid_count + tally.invalid_count = vi
    /\ vpc \in {"report", "save", "done"} =>
          result.valid_count + result.invalid_count = result.total_records
    /\ vpc = "done" =>
          /\ result.valid_count = Len(saved.v.articles.v)
          /\ report.valid_line = Len(saved.v.articles.v)

\* main has ended on a batch with valid and invalid records.
C10_Witness ==
    /\ vpc = "done"
    /\ result.valid_count > 0
    /\ result.invalid_count > 0
    /\ Len(saved.v.articles.v) < Len(RecordsOf(batch))

====
